---- MODULE Spec2Model ----
(***************************************************************************)
(* FluxAI policy / budget firewall: the router (checkAndRoute), the policy *)
(* evaluator (PolicyEngine), the cost estimator and the usage ledger       *)
(* (DatabaseService), over the Postgres tables of schema.sql.              *)
(*                                                                         *)
(* Money is an integer number of micro-dollars (1e-6 USD), the scale of    *)
(* the DECIMAL(10,6) columns; the wall clock is a day number.  Every await *)
(* of a store access that reads or writes a mutable table is one step of   *)
(* the call that makes it.                                                 *)
(***************************************************************************)
EXTENDS Integers, Sequences, FiniteSets, TLC

(* ------------------------------ bounds -------------------------------- *)

\* route calls issued in one behaviour
NumCalls == 2
\* aggregate updates of earlier route calls that may still be pending when a
\* behaviour begins
PendingUpdates == 2
\* the wall clock runs over the days 0..MaxDay
MaxDay == 2
\* days in a month of the model's calendar: the last day of the clock opens month 1
DaysPerMonth == MaxDay

(* ----------------------------- numbers -------------------------------- *)

\* micro-dollars in one cent: usage_aggregates.total_cost and policies.limit_value
\* are DECIMAL(10,2), usage_events.cost_estimate and tools.cost_per_unit DECIMAL(10,6)
Cent == 10000
\* JavaScript's Infinity, the limit reported when no policy bounds the request
Infinity == 1000000000

\* a DECIMAL(10,2) column keeps a value to the cent, rounding half away from zero
RoundCents(x) == ((x + (Cent \div 2)) \div Cent) * Cent

\* seed prices are written in units of 1e-8 USD; tools.cost_per_unit keeps 1e-6
ToMicro(x) == (x + 50) \div 100

\* JavaScript subtraction with Infinity - x = Infinity
Minus(a, b) == IF a = Infinity THEN Infinity ELSE a - b

(* --------------------------- SSE sessions ----------------------------- *)

\* SSE connections opened in one behaviour
MaxSessions == 3

\* transport.sessionId of the transports, in the order they are created
Sessions == 1 .. MaxSessions

\* no session: a POST without sessionId, lastTransport = null, no transport found
NoSession == 0

(* ------------------------- read-only tables --------------------------- *)

\* the tools table: the seeded catalog and one premium tool alone in its category
tools ==
  [ id \in { "gpt-4", "gpt-4-turbo", "gpt-3.5-turbo", "claude-3-opus",
             "claude-3-sonnet", "claude-3-haiku", "search-api", "vector-db",
             "image-gen" } |->
    CASE id = "gpt-4"           -> [category |-> "llm",    tier |-> "premium",  cost_per_unit |-> ToMicro(3000)]
      [] id = "gpt-4-turbo"     -> [category |-> "llm",    tier |-> "premium",  cost_per_unit |-> ToMicro(1000)]
      [] id = "gpt-3.5-turbo"   -> [category |-> "llm",    tier |-> "cheap",    cost_per_unit |-> ToMicro(50)]
      [] id = "claude-3-opus"   -> [category |-> "llm",    tier |-> "premium",  cost_per_unit |-> ToMicro(1500)]
      [] id = "claude-3-sonnet" -> [category |-> "llm",    tier |-> "standard", cost_per_unit |-> ToMicro(300)]
      [] id = "claude-3-haiku"  -> [category |-> "llm",    tier |-> "cheap",    cost_per_unit |-> ToMicro(25)]
      [] id = "search-api"      -> [category |-> "search", tier |-> "standard", cost_per_unit |-> ToMicro(100000)]
      [] id = "vector-db"       -> [category |-> "db",     tier |-> "standard", cost_per_unit |-> ToMicro(10000)]
      [] OTHER                  -> [category |-> "custom", tier |-> "premium",  cost_per_unit |-> ToMicro(3000)] ]

\* the tenants table: id -> plan
tenants == [ id \in {"FreeCo", "ProCorp", "EnterpriseLLC"} |->
             CASE id = "FreeCo" -> "free" [] id = "ProCorp" -> "pro" [] OTHER -> "enterprise" ]

NoTool == "none"

(* --------------------------- request inputs --------------------------- *)

Request(t, u, tool, units) ==
  [tenant_id |-> t, user_id |-> u, tool_id |-> tool, estimated_units |-> units]

\* the requests a route call is issued with
Inputs ==
  { Request("ProCorp", "alice", "gpt-4",         1000),
    Request("ProCorp", "bob",   "gpt-4",         1000),
    Request("ProCorp", "alice", "gpt-3.5-turbo", 1000),
    Request("ProCorp", "alice", "no-such-tool",  1000),
    Request("FreeCo",  "alice", "gpt-4",         1000),
    Request("FreeCo",  "alice", "image-gen",     1000),
    Request("FreeCo",  "bob",   "gpt-3.5-turbo", 1000),
    Request("NoSuchCo", "alice", "gpt-4",        1000) }

Calls == 1 .. NumCalls

\* the updateAggregates tasks: task c is started by route call c, the tasks
\* after NumCalls by route calls that returned before the behaviour began
Updates == 1 .. (NumCalls + PendingUpdates)

(* ----------------------------- policies ------------------------------- *)

Policy(id, t, sc, sid, lt, lv, dec, fb) ==
  [id |-> id, tenant_id |-> t, scope |-> sc, scope_id |-> sid, limit_type |-> lt,
   limit_value |-> lv, decision |-> dec, fallback_tool_id |-> fb]

\* rows the policies table may hold (seed-data shapes, limits scaled to a few cents)
PolicyPool ==
  { Policy(1, "ProCorp", "tenant", "",      "daily",       3 * Cent, "deny",             NoTool),
    Policy(2, "ProCorp", "tool",   "gpt-4", "per_request", 0,        "downgrade",        "gpt-3.5-turbo"),
    Policy(3, "ProCorp", "user",   "alice", "daily",       0,        "deny",             NoTool),
    Policy(4, "ProCorp", "tenant", "",      "monthly",     5 * Cent, "require_approval", NoTool),
    Policy(5, "ProCorp", "tool",   "gpt-4", "monthly",     0,        "allow",            NoTool),
    Policy(6, "FreeCo",  "tool",   "gpt-4", "per_request", 0,        "downgrade",        "gpt-3.5-turbo"),
    Policy(7, "ProCorp", "tool",   "gpt-4", "daily",       0,        "deny",             NoTool),
    Policy(8, "ProCorp", "tenant", "",      "daily",       0,        "deny",             NoTool),
    Policy(9, "FreeCo",  "tool",   "gpt-3.5-turbo", "per_request", 0, "downgrade",       "gpt-4-turbo") }

PolicyRow(id) == CHOOSE p \in PolicyPool : p.id = id

\* the contents of the policies table a behaviour starts with
PolicyTables ==
  { {},
    {PolicyRow(1)},
    {PolicyRow(4)},
    {PolicyRow(6)},
    {PolicyRow(1), PolicyRow(4)},
    {PolicyRow(1), PolicyRow(5)},
    {PolicyRow(1), PolicyRow(2), PolicyRow(3)},
    {PolicyRow(2), PolicyRow(7)},
    {PolicyRow(2), PolicyRow(8)},
    {PolicyRow(9)} }

VARIABLES
  now,               \* the wall clock, a day number
  policies,          \* the policies table
  usage_events,      \* the usage_events table
  usage_aggregates,  \* the usage_aggregates table
  call,              \* call[c]: the state of route call c (checkAndRoute's frame)
  upd,               \* upd[c]: the updateAggregates task call c's recordUsage started
  connections,       \* the HTTP server's map of SSE transports: the session ids it holds
  lastTransport,     \* the HTTP server's most recent SSE transport
  transports,        \* transports[s]: the state of the SSE transport of session s
  posted             \* the last POST /sse handled: the session named and the state of
                     \* its transport, the transport chosen and whether it was open

\* the state of the HTTP MCP server
server == <<connections, lastTransport, transports, posted>>

vars == <<now, policies, usage_events, usage_aggregates, call, upd, server>>

(* ------------------------------ helpers ------------------------------- *)

RECURSIVE SumCost(_)
\* events.reduce((sum, event) => sum + parseFloat(event.cost_estimate), 0)
SumCost(S) ==
  IF S = {} THEN 0
  ELSE LET e == CHOOSE x \in S : TRUE IN e.cost_estimate + SumCost(S \ {e})

\* CostEstimator.estimateCost
estimateCost(tool, units) == tool.cost_per_unit * units

\* the day (a DATE) on which period `periodType` containing day t starts
getPeriodStart(periodType, t) ==
  IF periodType = "daily" THEN t ELSE (t \div DaysPerMonth) * DaysPerMonth

\* the window a policy is counted in: per_request policies use the daily window
windowOf(policy) ==
  IF policy.limit_type = "per_request" THEN "daily" ELSE policy.limit_type

\* Postgres compares the VARCHAR scope as text: 'tenant' < 'tool' < 'user'
ScopeRank(scope) ==
  CASE scope = "tenant" -> 1 [] scope = "tool" -> 2 [] scope = "user" -> 3

ApplicableAnyScopeId(P, tenantId, userId, toolId) == { p \in P : p.tenant_id = tenantId }

\* the filter of getApplicablePolicies
Applicable(P, tenantId, userId, toolId) ==
  { p \in P : /\ p.tenant_id = tenantId
              /\ \/ p.scope = "tenant"
                 \/ p.scope = "user" /\ p.scope_id = userId
                 \/ p.scope = "tool" /\ p.scope_id = toolId }

\* .order('scope', { ascending: false }): every listing of S by descending scope
\* text; rows of equal scope come in any order
OrderByScopeDesc(S) ==
  { q \in [1 .. Cardinality(S) -> S] :
      /\ \A i, j \in 1 .. Cardinality(S) : i # j => q[i] # q[j]
      /\ \A i, j \in 1 .. Cardinality(S) :
           i < j => ScopeRank(q[i].scope) >= ScopeRank(q[j].scope) }

isToolAllowedAnyTier(plan, tier) == plan # "none" /\ tier # "none"

\* PolicyEngine.isToolAllowedForPlan, given what the two lookups returned
\* (NoTool / "none" stands for a lookup that returned no row)
isToolAllowedForPlan(plan, tier) ==
  IF plan = "none" \/ tier = "none" THEN FALSE
  ELSE IF plan = "free" /\ tier = "premium" THEN FALSE
  ELSE TRUE

\* PolicyEngine.getSuggestedFallback: the ids the alternatives query may return
\* first (same category, another id, lowest cost_per_unit; ties in any order)
getSuggestedFallback(toolId) ==
  LET alt == { a \in DOMAIN tools : tools[a].category = tools[toolId].category /\ a # toolId }
  IN  { a \in alt : \A b \in alt : tools[a].cost_per_unit <= tools[b].cost_per_unit }

FiresWithoutApproval(policy) ==
  \/ policy.decision = "deny"
  \/ policy.decision = "downgrade" /\ policy.fallback_tool_id # NoTool

FiresOnAllow(policy) == policy.decision # "downgrade" \/ policy.fallback_tool_id # NoTool

\* does a breached policy end the evaluation (lines 47, 54, 62)
Fires(policy) ==
  \/ policy.decision = "deny"
  \/ policy.decision = "downgrade" /\ policy.fallback_tool_id # NoTool
  \/ policy.decision = "require_approval"

BreachedAtLimit(policy, currentUsage, estimatedCost) ==
  currentUsage + estimatedCost >= policy.limit_value

\* the check of line 45
Breached(policy, currentUsage, estimatedCost) ==
  currentUsage + estimatedCost > policy.limit_value

(* --------------------------- records ---------------------------------- *)

NoInput == [tenant_id |-> "none", user_id |-> "none", tool_id |-> "none", estimated_units |-> 0]

\* a message: its fixed wording and the values interpolated into it
Message(text, limitType, limitValue, tool) ==
  [text |-> text, limit_type |-> limitType, limit_value |-> limitValue, tool |-> tool]

NoMessage == Message("none", "none", 0, NoTool)

NoEvaluation ==
  [allowed |-> FALSE, reason |-> NoMessage, suggested_tool |-> NoTool,
   current_usage |-> 0, limit |-> 0, policy |-> 0]

NoResult ==
  [decision |-> "none", final_tool_used |-> NoTool, cost_estimate |-> 0,
   remaining_budget |-> 0, message |-> NoMessage]

NoEvent ==
  [id |-> 0, timestamp |-> 0, tenant_id |-> "none", user_id |-> "none", tool_id |-> "none",
   units |-> 0, cost_estimate |-> 0, decision |-> "none"]

NoRow == [total_cost |-> 0, total_units |-> 0, found |-> FALSE]

IdleCall ==
  [pc |-> "idle", input |-> NoInput, estimatedCost |-> 0, plist |-> <<>>, idx |-> 0,
   periodStart |-> 0, measured |-> <<>>, evaluation |-> NoEvaluation, event |-> NoEvent,
   result |-> NoResult, err |-> {}, recorded |-> FALSE, thrown |-> FALSE]

IdleUpd == [pc |-> "none", now |-> 0, event |-> NoEvent, existing |-> NoRow]

\* no POST /sse has been handled
NoPost == [sessionId |-> NoSession, named |-> "none", transport |-> NoSession, open |-> FALSE]

\* the HTTP server at start-up: no SSE connection has been made
InitServer ==
  /\ connections = {}
  /\ lastTransport = NoSession
  /\ transports = [s \in Sessions |-> "new"]
  /\ posted = NoPost

Init ==
  /\ now = 0
  /\ policies \in PolicyTables
  /\ usage_events = {}
  /\ usage_aggregates = {}
  /\ call = [c \in Calls |-> IdleCall]
  /\ upd = [u \in Updates |-> IdleUpd]
  /\ InitServer

\* what a store access returns: its rows, or an error (data null)
Outcomes == {"ok", "error"}

\* a store access that returns its rows or throws
ThrowOutcomes == {"ok", "throw"}

\* the store accesses of a call that returned an error are kept in call[c].err
Failed(access, outcome) == IF outcome = "error" THEN {access} ELSE {}

AllOk == [tool |-> "ok", tenant |-> "ok", tier |-> "ok", cat |-> "ok", alt |-> "ok"]
GateOutcomes == [tool : Outcomes, tenant : Outcomes, tier : Outcomes, cat : Outcomes, alt : Outcomes]
GateThrowOutcomes ==
  [tool : ThrowOutcomes, tenant : ThrowOutcomes, tier : ThrowOutcomes,
   cat : ThrowOutcomes, alt : ThrowOutcomes]

CaughtRethrown(cs, toolId) == [cs EXCEPT !.pc = "threw", !.thrown = TRUE]

\* the catch block of checkAndRoute (part_002 lines 164-173)
Caught(cs, toolId) ==
  [cs EXCEPT !.pc = "done", !.thrown = TRUE,
             !.result = [decision |-> "denied", final_tool_used |-> toolId,
                         cost_estimate |-> 0, remaining_budget |-> 0,
                         message |-> Message("error_processing", "none", 0, NoTool)]]

(* ------------------------ the router: lookups ------------------------- *)

\* DatabaseService.getTool: the id of the row found, NoTool for null
getTool(toolId, outcome) ==
  IF outcome = "ok" /\ toolId \in DOMAIN tools THEN toolId ELSE NoTool

\* what getSuggestedFallback may return: a cheapest alternative, or null
FallbackOf(toolId, o) ==
  IF o.cat = "ok" /\ o.alt = "ok" /\ toolId \in DOMAIN tools /\ getSuggestedFallback(toolId) # {}
  THEN getSuggestedFallback(toolId)
  ELSE {NoTool}

\* checkAndRoute up to the plan-tier gate (lines 31-70): the tools and tenants
\* tables are never written, so its lookups are taken in one step
RouteBegin(c, inp, o) ==
  /\ call[c].pc = "idle"
  /\ \A d \in Calls : d < c => call[d].pc # "idle"
  /\ LET tool == getTool(inp.tool_id, o.tool)
         plan == IF o.tenant = "ok" /\ inp.tenant_id \in DOMAIN tenants
                 THEN tenants[inp.tenant_id] ELSE "none"
         tier == IF o.tier = "ok" /\ inp.tool_id \in DOMAIN tools
                 THEN tools[inp.tool_id].tier ELSE "none"
         thrown == \/ o.tool = "throw"
                   \/ tool # NoTool /\ (o.tenant = "throw" \/ o.tier = "throw")
                   \/ /\ tool # NoTool /\ ~isToolAllowedForPlan(plan, tier)
                      /\ (o.cat = "throw" \/ (o.cat = "ok" /\ o.alt = "throw"))
     IN
     IF thrown THEN
       call' = [call EXCEPT ![c] = Caught([@ EXCEPT !.input = inp], inp.tool_id)]
     ELSE IF tool = NoTool THEN
       call' = [call EXCEPT ![c] = [@ EXCEPT
                  !.pc = "done", !.input = inp, !.err = Failed("getTool", o.tool),
                  !.result = [decision |-> "denied", final_tool_used |-> inp.tool_id,
                              cost_estimate |-> 0, remaining_budget |-> 0,
                              message |-> Message("tool_not_found", "none", 0, inp.tool_id)]]]
     ELSE IF ~isToolAllowedForPlan(plan, tier) THEN
       \E fallback \in FallbackOf(inp.tool_id, o) :
         call' = [call EXCEPT ![c] = [@ EXCEPT
                    !.pc = "done", !.input = inp,
                    !.err = Failed("tenants.plan", o.tenant) \cup Failed("tools.tier", o.tier)
                            \cup Failed("tools.category", o.cat)
                            \cup (IF o.cat = "ok" THEN Failed("tools.alternatives", o.alt) ELSE {}),
                    !.result =
                      IF fallback # NoTool
                      THEN [decision |-> "downgraded", final_tool_used |-> fallback,
                            cost_estimate |-> 0, remaining_budget |-> 0,
                            message |-> Message("plan_downgraded", "none", 0, fallback)]
                      ELSE [decision |-> "denied", final_tool_used |-> inp.tool_id,
                            cost_estimate |-> 0, remaining_budget |-> 0,
                            message |-> Message("plan_denied", "none", 0, inp.tool_id)]]]
     ELSE
       call' = [call EXCEPT ![c] = [@ EXCEPT
                  !.pc = "policies", !.input = inp,
                  !.estimatedCost = estimateCost(tools[tool], inp.estimated_units)]]
  /\ UNCHANGED <<now, policies, usage_events, usage_aggregates, upd, server>>

(* ------------------------ the policy evaluator ------------------------ *)

\* the result evaluateRequest returns when `policy` fires (lines 47-69)
Verdict(policy, currentUsage) ==
  CASE policy.decision = "deny" ->
         [allowed |-> FALSE,
          reason |-> Message("would_exceed", policy.limit_type, policy.limit_value, NoTool),
          suggested_tool |-> NoTool, current_usage |-> currentUsage,
          limit |-> policy.limit_value, policy |-> policy.id]
    [] policy.decision = "downgrade" ->
         [allowed |-> TRUE,
          reason |-> Message("downgrading", "none", 0, policy.fallback_tool_id),
          suggested_tool |-> policy.fallback_tool_id, current_usage |-> currentUsage,
          limit |-> policy.limit_value, policy |-> policy.id]
    [] OTHER ->
         [allowed |-> FALSE,
          reason |-> Message("requires_approval", "none", 0, NoTool),
          suggested_tool |-> NoTool, current_usage |-> currentUsage,
          limit |-> policy.limit_value, policy |-> policy.id]

\* the result of lines 73-80: limit is policies[0]?.limit_value || Infinity
AllPassed(plist, usage) ==
  [allowed |-> TRUE, reason |-> Message("within_limits", "none", 0, NoTool),
   suggested_tool |-> NoTool, current_usage |-> usage,
   limit |-> IF plist[1].limit_value = 0 THEN Infinity ELSE plist[1].limit_value,
   policy |-> plist[1].id]

\* the result of lines 24-31
NoPolicies ==
  [allowed |-> TRUE, reason |-> Message("no_policies", "none", 0, NoTool),
   suggested_tool |-> NoTool, current_usage |-> 0, limit |-> Infinity, policy |-> 0]

evaluateRequestSamePolicy(cs, usage) ==
  IF cs.idx > Len(cs.plist) THEN
    [cs EXCEPT !.pc = "record", !.evaluation = AllPassed(cs.plist, usage)]
  ELSE
    LET policy == cs.plist[cs.idx]
        seen   == [i \in 1 .. cs.idx |->
                     IF i < cs.idx THEN cs.measured[i]
                     ELSE [policy |-> policy.id, current_usage |-> usage,
                           period_start |-> cs.periodStart]]
    IN  IF Breached(policy, usage, cs.estimatedCost) /\ Fires(policy)
        THEN [cs EXCEPT !.pc = "record", !.measured = seen,
                        !.evaluation = Verdict(policy, usage)]
        ELSE [cs EXCEPT !.pc = "usageAggregate", !.measured = seen]

\* evaluateRequest, resumed with the usage getCurrentUsage returned: the body of
\* the loop for policy idx (lines 42-70), or the return after it (lines 74-80)
evaluateRequest(cs, usage) ==
  IF cs.idx > Len(cs.plist) THEN
    [cs EXCEPT !.pc = "record", !.evaluation = AllPassed(cs.plist, usage)]
  ELSE
    LET policy == cs.plist[cs.idx]
        seen   == Append(cs.measured, [policy |-> policy.id, current_usage |-> usage,
                                       period_start |-> cs.periodStart])
    IN  IF Breached(policy, usage, cs.estimatedCost) /\ Fires(policy)
        THEN [cs EXCEPT !.pc = "record", !.measured = seen,
                        !.evaluation = Verdict(policy, usage)]
        ELSE [cs EXCEPT !.pc = "usageAggregate", !.measured = seen, !.idx = @ + 1]

FetchPoliciesConsuming(c, o) ==
  /\ call[c].pc = "policies"
  /\ LET inp == call[c].input
         S   == Applicable(policies, inp.tenant_id, inp.user_id, inp.tool_id)
     IN  /\ \E q \in OrderByScopeDesc(S) :
               call' = [call EXCEPT ![c] =
                 IF Len(q) = 0
                 THEN [@ EXCEPT !.pc = "record", !.evaluation = NoPolicies]
                 ELSE [@ EXCEPT !.pc = "usageAggregate", !.plist = q, !.idx = 1]]
         /\ policies' = policies \ { p \in S : p.limit_type = "per_request" }
  /\ UNCHANGED <<now, usage_events, usage_aggregates, upd, server>>

\* getApplicablePolicies and the start of evaluateRequest (lines 22-31, 87-105):
\* an error of the policies query is logged and an empty list returned
FetchPolicies(c, o) ==
  /\ call[c].pc = "policies"
  /\ LET inp == call[c].input
         S   == IF o = "ok"
                THEN Applicable(policies, inp.tenant_id, inp.user_id, inp.tool_id)
                ELSE {}
     IN  \E q \in OrderByScopeDesc(S) :
           call' = [call EXCEPT ![c] =
             IF o = "throw" THEN Caught(@, inp.tool_id)
             ELSE IF Len(q) = 0
             THEN [@ EXCEPT !.pc = "record", !.evaluation = NoPolicies,
                            !.err = @ \cup Failed("policies", o)]
             ELSE [@ EXCEPT !.pc = "usageAggregate", !.plist = q, !.idx = 1]]
  /\ UNCHANGED <<now, policies, usage_events, usage_aggregates, upd, server>>

\* the window the pending getCurrentUsage call counts: the policy's, or 'daily'
\* for the call of line 74
PendingWindow(cs) ==
  IF cs.idx > Len(cs.plist) THEN "daily" ELSE windowOf(cs.plist[cs.idx])

\* the rows the first query of getCurrentUsage selects (lines 116-122): those of
\* the tenant for the period, whatever their user and tool
AggregateRows(tenantId, periodType, periodStart) ==
  { r \in usage_aggregates :
      /\ r.tenant_id = tenantId
      /\ r.period_type = (IF periodType = "daily" THEN "day" ELSE "month")
      /\ r.period_start = periodStart }

\* the events the fallback query of getCurrentUsage selects (lines 132-136)
EventsSince(tenantId, periodStart) ==
  { e \in usage_events : e.tenant_id = tenantId /\ e.timestamp >= periodStart }

\* getCurrentUsage, first query (lines 116-129): the usage_aggregates rows of the
\* tenant for the period; maybeSingle() yields a row only when exactly one matches
ReadUsageAggregate(c, o) ==
  /\ call[c].pc = "usageAggregate"
  /\ LET cs          == call[c]
         periodType  == PendingWindow(cs)
         periodStart == getPeriodStart(periodType, now)
         rows == AggregateRows(cs.input.tenant_id, periodType, periodStart)
     IN  IF o = "throw"
         THEN call' = [call EXCEPT ![c] = Caught(@, cs.input.tool_id)]
         ELSE IF o = "ok" /\ Cardinality(rows) = 1
         THEN call' = [call EXCEPT ![c] =
                         evaluateRequest([cs EXCEPT !.periodStart = periodStart],
                                         (CHOOSE r \in rows : TRUE).total_cost)]
         ELSE call' = [call EXCEPT ![c] = [@ EXCEPT !.pc = "usageEvents",
                                                    !.periodStart = periodStart,
                                                    !.err = @ \cup Failed("usage_aggregates", o)]]
  /\ UNCHANGED <<now, policies, usage_events, usage_aggregates, upd, server>>

ReadUsageEventsAllTime(c, o) ==
  /\ call[c].pc = "usageEvents"
  /\ LET cs     == call[c]
         events == { e \in usage_events : e.tenant_id = cs.input.tenant_id }
     IN  call' = [call EXCEPT ![c] = evaluateRequest(cs, SumCost(events))]
  /\ UNCHANGED <<now, policies, usage_events, usage_aggregates, upd, server>>

\* getCurrentUsage, fallback query (lines 131-142): the sum of cost_estimate over
\* the tenant's events since the period start; no rows or an error give 0
ReadUsageEvents(c, o) ==
  /\ call[c].pc = "usageEvents"
  /\ LET cs     == call[c]
         events == IF o = "ok"
                   THEN EventsSince(cs.input.tenant_id, cs.periodStart)
                   ELSE {}
     IN  call' = [call EXCEPT ![c] =
                    IF o = "throw" THEN Caught(@, cs.input.tool_id)
                    ELSE [evaluateRequest(cs, SumCost(events)) EXCEPT
                            !.err = @ \cup Failed("usage_events", o)]]
  /\ UNCHANGED <<now, policies, usage_events, usage_aggregates, upd, server>>

(* ------------------- the router: recording the decision --------------- *)

\* the event fields every ending of checkAndRoute shares
BaseEvent(c, cs) ==
  [id |-> c, timestamp |-> now, tenant_id |-> cs.input.tenant_id,
   user_id |-> cs.input.user_id, tool_id |-> cs.input.tool_id,
   units |-> 0, cost_estimate |-> 0, decision |-> "denied"]

DeniedOutcomeCharged(c, cs) ==
  [event  |-> [BaseEvent(c, cs) EXCEPT !.units = cs.input.estimated_units,
                                       !.cost_estimate = cs.estimatedCost],
   result |-> [decision |-> "denied", final_tool_used |-> cs.input.tool_id,
               cost_estimate |-> cs.estimatedCost,
               remaining_budget |->
                 Minus(Minus(cs.evaluation.limit, cs.evaluation.current_usage), cs.estimatedCost),
               message |-> cs.evaluation.reason]]

\* the evaluation did not allow the request (lines 80-101): a zero-cost denied
\* event, and the denied result
DeniedOutcome(c, cs) ==
  [event  |-> BaseEvent(c, cs),
   result |-> [decision |-> "denied", final_tool_used |-> cs.input.tool_id,
               cost_estimate |-> cs.estimatedCost,
               remaining_budget |-> Minus(cs.evaluation.limit, cs.evaluation.current_usage),
               message |-> cs.evaluation.reason]]

DowngradedOutcomeNoReestimate(c, cs, o) ==
  [event  |-> [BaseEvent(c, cs) EXCEPT !.tool_id = cs.evaluation.suggested_tool,
                                       !.units = cs.input.estimated_units,
                                       !.cost_estimate = cs.estimatedCost,
                                       !.decision = "downgraded"],
   result |-> [decision |-> "downgraded", final_tool_used |-> cs.evaluation.suggested_tool,
               cost_estimate |-> cs.estimatedCost,
               remaining_budget |->
                 Minus(Minus(cs.evaluation.limit, cs.evaluation.current_usage), cs.estimatedCost),
               message |-> cs.evaluation.reason]]

DowngradedOutcomeEventOnRequested(c, cs, o) ==
  LET fallbackTool == getTool(cs.evaluation.suggested_tool, o)
      fallbackCost == IF fallbackTool # NoTool
                      THEN estimateCost(tools[fallbackTool], cs.input.estimated_units)
                      ELSE cs.estimatedCost
  IN
  [event  |-> [BaseEvent(c, cs) EXCEPT !.units = cs.input.estimated_units,
                                       !.cost_estimate = cs.estimatedCost,
                                       !.decision = "downgraded"],
   result |-> [decision |-> "downgraded", final_tool_used |-> cs.evaluation.suggested_tool,
               cost_estimate |-> fallbackCost,
               remaining_budget |->
                 Minus(Minus(cs.evaluation.limit, cs.evaluation.current_usage), fallbackCost),
               message |-> cs.evaluation.reason]]

\* the evaluation suggested a fallback tool (lines 103-138): the cost is estimated
\* again on the fallback tool, which `o` says whether getTool found
DowngradedOutcome(c, cs, o) ==
  LET fallbackTool == getTool(cs.evaluation.suggested_tool, o)
      fallbackCost == IF fallbackTool # NoTool
                      THEN estimateCost(tools[fallbackTool], cs.input.estimated_units)
                      ELSE cs.estimatedCost
  IN
  [event  |-> [BaseEvent(c, cs) EXCEPT !.tool_id = cs.evaluation.suggested_tool,
                                       !.units = cs.input.estimated_units,
                                       !.cost_estimate = fallbackCost,
                                       !.decision = "downgraded"],
   result |-> [decision |-> "downgraded", final_tool_used |-> cs.evaluation.suggested_tool,
               cost_estimate |-> fallbackCost,
               remaining_budget |->
                 Minus(Minus(cs.evaluation.limit, cs.evaluation.current_usage), fallbackCost),
               message |-> cs.evaluation.reason]]

\* the request is allowed on the requested tool (lines 140-163)
AllowedOutcome(c, cs) ==
  [event  |-> [BaseEvent(c, cs) EXCEPT !.units = cs.input.estimated_units,
                                       !.cost_estimate = cs.estimatedCost,
                                       !.decision = "allowed"],
   result |-> [decision |-> "allowed", final_tool_used |-> cs.input.tool_id,
               cost_estimate |-> cs.estimatedCost,
               remaining_budget |->
                 Minus(Minus(cs.evaluation.limit, cs.evaluation.current_usage), cs.estimatedCost),
               message |-> Message("approved", "none", 0, NoTool)]]

\* the ending checkAndRoute takes after evaluateRequest (lines 81, 104, 140)
Outcome(c, cs, o) ==
  IF ~cs.evaluation.allowed THEN DeniedOutcome(c, cs)
  ELSE IF cs.evaluation.suggested_tool # NoTool THEN DowngradedOutcome(c, cs, o)
  ELSE AllowedOutcome(c, cs)

\* checkAndRoute builds the usage event, stamped with the clock, and calls recordUsage
PrepareEvent(c, o) ==
  /\ call[c].pc = "record"
  /\ LET out == Outcome(c, call[c], o)
         downgrade == call[c].evaluation.allowed /\ call[c].evaluation.suggested_tool # NoTool
     IN  call' = [call EXCEPT ![c] =
                    IF downgrade /\ o = "throw" THEN Caught(@, call[c].input.tool_id)
                    ELSE [@ EXCEPT
                            !.pc = "insert", !.event = out.event, !.result = out.result,
                            !.err = @ \cup (IF downgrade THEN Failed("getTool", o) ELSE {})]]
  /\ UNCHANGED <<now, policies, usage_events, usage_aggregates, upd, server>>

recordUsageSkipDenied(c, o) ==
  /\ call[c].pc = "insert"
  /\ IF o = "ok" /\ call[c].event.decision # "denied"
     THEN /\ usage_events' = usage_events \cup {call[c].event}
          /\ upd' = [upd EXCEPT ![c] = [pc |-> "dayRead", now |-> now,
                                        event |-> call[c].event, existing |-> NoRow]]
     ELSE UNCHANGED <<usage_events, upd>>
  /\ call' = [call EXCEPT ![c] = [@ EXCEPT !.pc = "done", !.recorded = (o = "ok")]]
  /\ UNCHANGED <<now, policies, usage_aggregates, server>>

recordUsageAlwaysAggregates(c, o) ==
  /\ call[c].pc = "insert"
  /\ usage_events' = IF o = "ok" THEN usage_events \cup {call[c].event} ELSE usage_events
  /\ upd' = [upd EXCEPT ![c] = [pc |-> "dayRead", now |-> now,
                                event |-> call[c].event, existing |-> NoRow]]
  /\ call' = [call EXCEPT ![c] = [@ EXCEPT !.pc = "done", !.recorded = (o = "ok"),
                                           !.err = @ \cup Failed("insert", o)]]
  /\ UNCHANGED <<now, policies, usage_aggregates, server>>

\* DatabaseService.recordUsage (lines 10-35): the insert into usage_events; on
\* success updateAggregates is started, not awaited, and reads the clock; then
\* checkAndRoute returns its result
recordUsage(c, o) ==
  /\ call[c].pc = "insert"
  /\ IF o = "ok"
     THEN /\ usage_events' = usage_events \cup {call[c].event}
          /\ upd' = [upd EXCEPT ![c] = [pc |-> "dayRead", now |-> now,
                                        event |-> call[c].event, existing |-> NoRow]]
     ELSE UNCHANGED <<usage_events, upd>>
  /\ call' = [call EXCEPT ![c] =
                IF o = "throw" THEN Caught(@, call[c].input.tool_id)
                ELSE [@ EXCEPT !.pc = "done", !.recorded = (o = "ok"),
                               !.err = @ \cup Failed("insert", o)]]
  /\ UNCHANGED <<now, policies, usage_aggregates, server>>

(* ------------------------- the usage ledger --------------------------- *)

\* the aggregate key updateAggregates passes to upsertAggregate (lines 47-57)
KeyOf(u) ==
  LET day == u.pc \in {"dayRead", "dayWrite"}
  IN  [tenant_id |-> u.event.tenant_id, user_id |-> u.event.user_id,
       tool_id |-> u.event.tool_id,
       period_type |-> IF day THEN "day" ELSE "month",
       period_start |-> getPeriodStart(IF day THEN "daily" ELSE "monthly", u.now)]

Matches(r, k) ==
  /\ r.tenant_id = k.tenant_id /\ r.user_id = k.user_id /\ r.tool_id = k.tool_id
  /\ r.period_type = k.period_type /\ r.period_start = k.period_start

Row(k, cost, units) ==
  [tenant_id |-> k.tenant_id, user_id |-> k.user_id, tool_id |-> k.tool_id,
   period_type |-> k.period_type, period_start |-> k.period_start,
   total_units |-> units, total_cost |-> RoundCents(cost)]

\* upsertAggregate, the select (lines 73-81)
upsertAggregateRead(c, o) ==
  /\ upd[c].pc \in {"dayRead", "monthRead"}
  /\ LET rows == { r \in usage_aggregates : Matches(r, KeyOf(upd[c])) }
         existing == IF o = "ok" /\ rows # {}
                     THEN LET r == CHOOSE x \in rows : TRUE
                          IN  [total_cost |-> r.total_cost, total_units |-> r.total_units,
                               found |-> TRUE]
                     ELSE NoRow
     IN  upd' = [upd EXCEPT ![c] = [@ EXCEPT
                   !.pc = IF o = "throw" THEN "rejected"
                          ELSE IF upd[c].pc = "dayRead" THEN "dayWrite" ELSE "monthWrite",
                   !.existing = existing]]
  /\ UNCHANGED <<now, policies, usage_events, usage_aggregates, call, server>>

InsertAggregateNoUnique(table, k, cost, units) == table \cup {Row(k, cost, units)}

\* the insert of lines 99-109 under UNIQUE (tenant_id, user_id, tool_id,
\* period_type, period_start): refused when the key has a row
InsertAggregate(table, k, cost, units) ==
  IF \E r \in table : Matches(r, k) THEN table ELSE table \cup {Row(k, cost, units)}

\* the update of lines 85-96: the rows of the key are set to the values computed
\* from the row read earlier
UpdateAggregate(table, k, existing, cost, units) ==
  { IF Matches(r, k)
    THEN Row(k, existing.total_cost + cost, existing.total_units + units)
    ELSE r : r \in table }

\* upsertAggregate, the write (lines 83-110); its error is not looked at
upsertAggregateWrite(c, o) ==
  /\ upd[c].pc \in {"dayWrite", "monthWrite"}
  /\ LET u == upd[c]
         k == KeyOf(u)
     IN  usage_aggregates' =
           IF o # "ok" THEN usage_aggregates
           ELSE IF u.existing.found
           THEN UpdateAggregate(usage_aggregates, k, u.existing,
                                u.event.cost_estimate, u.event.units)
           ELSE InsertAggregate(usage_aggregates, k, u.event.cost_estimate, u.event.units)
  /\ upd' = [upd EXCEPT ![c] = [@ EXCEPT
               !.pc = IF o = "throw" THEN "rejected"
                      ELSE IF upd[c].pc = "dayWrite" THEN "monthRead" ELSE "done",
               !.existing = NoRow]]
  /\ UNCHANGED <<now, policies, usage_events, call, server>>

(* --------------------------- policy writes ---------------------------- *)

\* rows the policies table holds at most
MaxPolicies == 3

\* the arguments set_policy is called with ("" and NoTool: the optional field
\* is left out)
PolicyWrites ==
  { Policy(0, "ProCorp",  "tenant", "",      "daily",       3 * Cent, "deny",      NoTool),
    Policy(0, "ProCorp",  "user",   "",      "daily",       3 * Cent, "deny",      NoTool),
    Policy(0, "ProCorp",  "tenant", "alice", "daily",       3 * Cent, "deny",      NoTool),
    Policy(0, "ProCorp",  "tool",   "gpt-4", "per_request", Cent,     "downgrade", NoTool),
    Policy(0, "ProCorp",  "tool",   "gpt-4", "per_request", 0,        "downgrade", "gpt-3.5-turbo"),
    Policy(0, "ProCorp",  "tool",   "gpt-4", "per_request", Cent,     "downgrade", "no-such-tool"),
    Policy(0, "NoSuchCo", "tenant", "",      "daily",       3 * Cent, "deny",      NoTool) }

\* SetPolicySchema: the enums hold for every member of PolicyWrites; what is
\* left to check is limit_value: z.number().positive()
SetPolicySchema(input) == input.limit_value > 0

\* the constraints of the policies table: the foreign keys on tenant_id and
\* fallback_tool_id (nullable)
PoliciesConstraints(row) ==
  /\ row.tenant_id \in DOMAIN tenants
  /\ row.fallback_tool_id = NoTool \/ row.fallback_tool_id \in DOMAIN tools

\* the set_policy tool: SetPolicySchema.parse, then setPolicy's insert; the row
\* gets a fresh id and limit_value is kept as DECIMAL(10,2)
setPolicy(input) ==
  /\ Cardinality(policies) < MaxPolicies
  /\ LET row == [input EXCEPT !.id = 10 + Cardinality(policies),
                              !.limit_value = RoundCents(input.limit_value)]
     IN  policies' = IF SetPolicySchema(input) /\ PoliciesConstraints(row)
                     THEN policies \cup {row}
                     ELSE policies
  /\ UNCHANGED <<now, usage_events, usage_aggregates, call, upd, server>>

(* ------------------------------ the clock ----------------------------- *)

Tick ==
  /\ now < MaxDay
  /\ now' = now + 1
  /\ UNCHANGED <<policies, usage_events, usage_aggregates, call, upd, server>>

(* --------------------------- specifications --------------------------- *)

\* the client issues a call after the calls before it have returned
Sequential(c) == \A d \in Calls : d < c => call[d].pc = "done"

\* concurrent route calls within one day; every store access succeeds
Next ==
  \/ \E c \in Calls, inp \in Inputs : RouteBegin(c, inp, AllOk)
  \/ \E c \in Calls : FetchPolicies(c, "ok")
  \/ \E c \in Calls : ReadUsageAggregate(c, "ok")
  \/ \E c \in Calls : ReadUsageEvents(c, "ok")
  \/ \E c \in Calls : PrepareEvent(c, "ok")
  \/ \E c \in Calls : recordUsage(c, "ok")
  \/ \E c \in Calls : upsertAggregateRead(c, "ok")
  \/ \E c \in Calls : upsertAggregateWrite(c, "ok")

Spec == Init /\ [][Next]_vars

\* route calls issued one after another while the clock runs; every store
\* access succeeds
NextClock ==
  \/ \E c \in Calls, inp \in Inputs : Sequential(c) /\ RouteBegin(c, inp, AllOk)
  \/ \E c \in Calls : FetchPolicies(c, "ok")
  \/ \E c \in Calls : ReadUsageAggregate(c, "ok")
  \/ \E c \in Calls : ReadUsageEvents(c, "ok")
  \/ \E c \in Calls : PrepareEvent(c, "ok")
  \/ \E c \in Calls : recordUsage(c, "ok")
  \/ \E c \in Calls : upsertAggregateRead(c, "ok")
  \/ \E c \in Calls : upsertAggregateWrite(c, "ok")
  \/ Tick

SpecClock == Init /\ [][NextClock]_vars

\* route calls issued one after another within one day; any store access may
\* return an error
NextFault ==
  \/ \E c \in Calls : /\ Sequential(c) /\ call[c].pc = "idle"
                       /\ \E inp \in Inputs, o \in GateOutcomes : RouteBegin(c, inp, o)
  \/ \E c \in Calls, o \in Outcomes : FetchPolicies(c, o)
  \/ \E c \in Calls, o \in Outcomes : ReadUsageAggregate(c, o)
  \/ \E c \in Calls, o \in Outcomes : ReadUsageEvents(c, o)
  \/ \E c \in Calls, o \in Outcomes : PrepareEvent(c, o)
  \/ \E c \in Calls, o \in Outcomes : recordUsage(c, o)
  \/ \E c \in Calls, o \in Outcomes : upsertAggregateRead(c, o)
  \/ \E c \in Calls, o \in Outcomes : upsertAggregateWrite(c, o)

SpecFault == Init /\ [][NextFault]_vars

\* route calls issued one after another within one day; any store access may
\* throw instead of returning
NextThrow ==
  \/ \E c \in Calls : /\ Sequential(c) /\ call[c].pc = "idle"
                       /\ \E inp \in Inputs, o \in GateThrowOutcomes : RouteBegin(c, inp, o)
  \/ \E c \in Calls, o \in ThrowOutcomes : FetchPolicies(c, o)
  \/ \E c \in Calls, o \in ThrowOutcomes : ReadUsageAggregate(c, o)
  \/ \E c \in Calls, o \in ThrowOutcomes : ReadUsageEvents(c, o)
  \/ \E c \in Calls, o \in ThrowOutcomes : PrepareEvent(c, o)
  \/ \E c \in Calls, o \in ThrowOutcomes : recordUsage(c, o)
  \/ \E c \in Calls, o \in ThrowOutcomes : upsertAggregateRead(c, o)
  \/ \E c \in Calls, o \in ThrowOutcomes : upsertAggregateWrite(c, o)

SpecThrow == Init /\ [][NextThrow]_vars

\* the requests issued while policies are being written
AdminInputs ==
  { Request("ProCorp", "alice", "gpt-4", 1000),
    Request("ProCorp", "bob",   "gpt-3.5-turbo", 1000) }

\* route calls issued one after another within one day while set_policy is
\* called; every store access succeeds
NextAdmin ==
  \/ \E input \in PolicyWrites : setPolicy(input)
  \/ \E c \in Calls, inp \in AdminInputs : Sequential(c) /\ RouteBegin(c, inp, AllOk)
  \/ \E c \in Calls : FetchPolicies(c, "ok")
  \/ \E c \in Calls : ReadUsageAggregate(c, "ok")
  \/ \E c \in Calls : ReadUsageEvents(c, "ok")
  \/ \E c \in Calls : PrepareEvent(c, "ok")
  \/ \E c \in Calls : recordUsage(c, "ok")
  \/ \E c \in Calls : upsertAggregateRead(c, "ok")
  \/ \E c \in Calls : upsertAggregateWrite(c, "ok")

SpecAdmin == Init /\ [][NextAdmin]_vars

\* the requests issued while earlier aggregate updates are pending
LedgerInputs == { Request("ProCorp", "alice", "gpt-4", 1000) }

\* the event an earlier allowed call of LedgerInputs recorded on day 0
EarlierEvent(u, inp) ==
  [id |-> u, timestamp |-> 0, tenant_id |-> inp.tenant_id, user_id |-> inp.user_id,
   tool_id |-> inp.tool_id, units |-> inp.estimated_units,
   cost_estimate |-> estimateCost(tools[inp.tool_id], inp.estimated_units),
   decision |-> "allowed"]

\* no policies; route calls made earlier have returned, their events are in the
\* log and their updateAggregates tasks have been started and not yet run
InitLedger ==
  /\ InitServer
  /\ now = 0
  /\ policies = {}
  /\ usage_aggregates = {}
  /\ call = [c \in Calls |-> IdleCall]
  /\ \E inp \in LedgerInputs :
       /\ usage_events = { EarlierEvent(u, inp) : u \in Updates \ Calls }
       /\ upd = [u \in Updates |->
                  IF u \in Calls THEN IdleUpd
                  ELSE [pc |-> "dayRead", now |-> 0, event |-> EarlierEvent(u, inp),
                        existing |-> NoRow]]

\* concurrent route calls within one day alongside the pending aggregate
\* updates; every store access succeeds
NextLedger ==
  \/ \E c \in Calls, inp \in LedgerInputs : RouteBegin(c, inp, AllOk)
  \/ \E c \in Calls : FetchPolicies(c, "ok")
  \/ \E c \in Calls : PrepareEvent(c, "ok")
  \/ \E c \in Calls : recordUsage(c, "ok")
  \/ \E u \in Updates : upsertAggregateRead(u, "ok")
  \/ \E u \in Updates : upsertAggregateWrite(u, "ok")

SpecLedger == InitLedger /\ [][NextLedger]_vars

\* a store access returns its rows, returns an error, or throws
AnyOutcomes == Outcomes \cup ThrowOutcomes

GateAnyOutcomes ==
  [tool : AnyOutcomes, tenant : AnyOutcomes, tier : AnyOutcomes,
   cat : AnyOutcomes, alt : AnyOutcomes]

\* the requests issued in the runs checked for termination
LiveInputs ==
  { Request("ProCorp", "alice", "gpt-4",        1000),
    Request("FreeCo",  "alice", "gpt-4",        1000),
    Request("ProCorp", "alice", "no-such-tool", 1000) }

\* the continuation of route call c after the store access it awaits has settled
RouteStep(c) ==
  \/ \E o \in AnyOutcomes : FetchPolicies(c, o)
  \/ \E o \in AnyOutcomes : ReadUsageAggregate(c, o)
  \/ \E o \in AnyOutcomes : ReadUsageEvents(c, o)
  \/ \E o \in AnyOutcomes : PrepareEvent(c, o)
  \/ \E o \in AnyOutcomes : recordUsage(c, o)

\* concurrent route calls within one day; every store access returns its rows,
\* returns an error or throws
NextLive ==
  \/ \E c \in Calls : /\ call[c].pc = "idle"
                       /\ \E inp \in LiveInputs, o \in GateAnyOutcomes : RouteBegin(c, inp, o)
  \/ \E c \in Calls : RouteStep(c)
  \/ \E c \in Calls : upsertAggregateRead(c, "ok")
  \/ \E c \in Calls : upsertAggregateWrite(c, "ok")

\* every store access a call awaits settles, and the event loop then runs the
\* call's continuation
SpecLive == Init /\ [][NextLive]_vars /\ \A c \in Calls : WF_vars(RouteStep(c))

(* ------------------------ the HTTP MCP server ------------------------- *)

\* app.get('/sse') (part_002 436-486): a transport is created with a fresh
\* session id, stored in connections under it, made lastTransport, and connected
GetSse ==
  /\ \E s \in Sessions :
       /\ transports[s] = "new"
       /\ \A r \in Sessions : r < s => transports[r] # "new"
       /\ connections' = connections \cup {s}
       /\ lastTransport' = s
       /\ transports' = [transports EXCEPT ![s] = "open"]
  /\ UNCHANGED <<now, policies, usage_events, usage_aggregates, call, upd, posted>>

\* the SSE request of session s closes (lines 476-479): the server closes the
\* transport, whose onclose handler (lines 465-468) deletes it from connections
CloseSse(s) ==
  /\ transports[s] = "open"
  /\ transports' = [transports EXCEPT ![s] = "closed"]
  /\ connections' = connections \ {s}
  /\ UNCHANGED <<now, policies, usage_events, usage_aggregates, call, upd,
                 lastTransport, posted>>

\* the transport app.post('/sse') resolves for the sessionId of the query
\* (lines 496-511): the one stored under it, else the sole one in connections,
\* else lastTransport
ResolveTransport(sessionId) ==
  LET named == IF sessionId # NoSession /\ sessionId \in connections
               THEN sessionId ELSE NoSession
      sole  == IF named = NoSession /\ Cardinality(connections) = 1
               THEN CHOOSE s \in connections : TRUE ELSE named
  IN  IF sole = NoSession /\ lastTransport # NoSession THEN lastTransport ELSE sole

\* app.post('/sse') (lines 489-533): 404 when no transport is resolved, else the
\* message is given to the transport's handlePostMessage
PostSse(sessionId) ==
  /\ LET transport == ResolveTransport(sessionId)
     IN  posted' = [sessionId |-> sessionId,
                    named |-> IF sessionId = NoSession THEN "none" ELSE transports[sessionId],
                    transport |-> transport,
                    open |-> transport # NoSession /\ transports[transport] = "open"]
  /\ UNCHANGED <<now, policies, usage_events, usage_aggregates, call, upd,
                 connections, lastTransport, transports>>

\* the firewall at rest, for the runs of the HTTP server alone
InitSse ==
  /\ now = 0
  /\ policies = {}
  /\ usage_events = {}
  /\ usage_aggregates = {}
  /\ call = [c \in Calls |-> IdleCall]
  /\ upd = [u \in Updates |-> IdleUpd]
  /\ InitServer

\* SSE connections are opened and closed and messages POSTed to /sse, with the
\* session id of any connection, or none
NextSse ==
  \/ GetSse
  \/ \E s \in Sessions : CloseSse(s)
  \/ \E sessionId \in Sessions \cup {NoSession} : PostSse(sessionId)

SpecSse == InitSse /\ [][NextSse]_vars

(* ============================== claims ================================ *)

RECURSIVE SumUnits(_)
SumUnits(S) ==
  IF S = {} THEN 0
  ELSE LET e == CHOOSE x \in S : TRUE IN e.units + SumUnits(S \ {e})

RECURSIVE SumCents(_)
\* the sum of the events' costs, each as a DECIMAL(10,2) column keeps it
SumCents(S) ==
  IF S = {} THEN 0
  ELSE LET e == CHOOSE x \in S : TRUE IN RoundCents(e.cost_estimate) + SumCents(S \ {e})

\* no route call and no aggregate update is in progress
Quiescent ==
  /\ \A c \in Calls : call[c].pc \in {"idle", "done"}
  /\ \A u \in Updates : upd[u].pc \in {"none", "done"}

\* the events counted by the aggregate row of event e for period type pt
SameKey(e, pt) ==
  { x \in usage_events :
      /\ x.tenant_id = e.tenant_id /\ x.user_id = e.user_id /\ x.tool_id = e.tool_id
      /\ getPeriodStart(pt, x.timestamp) = getPeriodStart(pt, e.timestamp) }

\* C1: once every upsert started by concurrent route calls on one aggregate key
\* has completed, the key's row holds the sum of the calls' unit and cost deltas
\* (each cost as the column keeps it): no update is lost.
C1_NoLostUpdate ==
  Quiescent =>
    \A e \in usage_events : \A pt \in {"daily", "monthly"} :
      \E r \in usage_aggregates :
        /\ r.tenant_id = e.tenant_id /\ r.user_id = e.user_id /\ r.tool_id = e.tool_id
        /\ r.period_type = (IF pt = "daily" THEN "day" ELSE "month")
        /\ r.period_start = getPeriodStart(pt, e.timestamp)
        /\ r.total_units = SumUnits(SameKey(e, pt))
        /\ r.total_cost = SumCents(SameKey(e, pt))

\* route call c has returned its result
Returned(c) == call[c].pc = "done"

\* route call c got past the plan-tier gate and evaluateRequest has returned
Evaluated(c) == call[c].evaluation # NoEvaluation

\* C2: a route call during which a store access returned an error returns
\* decision denied, never allowed or downgraded.
C2_FailClosed ==
  \A c \in Calls :
    (Returned(c) /\ call[c].err # {}) => call[c].result.decision = "denied"

\* specificity as the spec orders it: tool > user > tenant
Specificity(scope) ==
  CASE scope = "tool" -> 3 [] scope = "user" -> 2 [] scope = "tenant" -> 1

\* policy p, counted on `usage`, would end the evaluation of a request costing `cost`
WouldFire(p, usage, cost) ==
  /\ usage + cost > p.limit_value
  /\ \/ p.decision \in {"deny", "require_approval"}
     \/ p.decision = "downgrade" /\ p.fallback_tool_id # NoTool

\* the policies evaluateRequest was given for call c
Listed(c) == { call[c].plist[i] : i \in 1 .. Len(call[c].plist) }

\* C3: the applicable policies are examined tool-scope first, then user-scope,
\* then tenant-scope, and when several would fire on the same usage figure the
\* verdict returned is that of the most specific of them.
C3_SpecificityOrder ==
  \A c \in Calls :
    /\ \A i, j \in 1 .. Len(call[c].plist) :
         i < j => Specificity(call[c].plist[i].scope) >= Specificity(call[c].plist[j].scope)
    /\ (Evaluated(c) /\ call[c].evaluation.reason.text
                          \in {"would_exceed", "downgrading", "requires_approval"}) =>
         LET p == PolicyRow(call[c].evaluation.policy)
         IN  ~ \E q \in Listed(c) :
                 /\ Specificity(q.scope) > Specificity(p.scope)
                 /\ windowOf(q) = windowOf(p)
                 /\ WouldFire(q, call[c].evaluation.current_usage, call[c].estimatedCost)

\* the usage evaluateRequest measured for the i-th policy it examined
Measured(c, i) == call[c].measured[i].current_usage

\* every policy given to evaluateRequest was examined and found within its limit
AllWithinLimit(c) ==
  /\ Len(call[c].measured) = Len(call[c].plist)
  /\ \A i \in 1 .. Len(call[c].plist) :
       Measured(c, i) + call[c].estimatedCost <= call[c].plist[i].limit_value

\* C4: a request that reaches policy evaluation and whose measured usage plus
\* estimated cost is within the limit of every applicable policy is allowed on
\* the requested tool; projected usage equal to the limit is allowed.
C4_WithinLimitsAllowed ==
  \A c \in Calls :
    (Returned(c) /\ Evaluated(c) /\ AllWithinLimit(c)) =>
      /\ call[c].result.decision = "allowed"
      /\ call[c].result.final_tool_used = call[c].input.tool_id

\* a returned call allowed with projected usage exactly at a policy's limit
C4_Witness ==
  \E c \in Calls :
    /\ Returned(c) /\ Evaluated(c) /\ AllWithinLimit(c)
    /\ call[c].result.decision = "allowed"
    /\ \E i \in 1 .. Len(call[c].plist) :
         /\ call[c].plist[i].decision = "deny"
         /\ Measured(c, i) + call[c].estimatedCost = call[c].plist[i].limit_value

\* the first examined policy of call c that fires is the i-th
FirstToFire(c, i) ==
  /\ i \in 1 .. Len(call[c].measured)
  /\ WouldFire(call[c].plist[i], Measured(c, i), call[c].estimatedCost)
  /\ \A j \in 1 .. (i - 1) :
       ~WouldFire(call[c].plist[j], Measured(c, j), call[c].estimatedCost)

\* the usage events call c has recorded
EventsOf(c) == { e \in usage_events : e.id = c }

\* C5: when the first policy to fire has decision deny, route returns denied on
\* the requested tool, its message names the breached limit type and value,
\* remaining_budget = limit - current_usage, and exactly one usage event is
\* recorded for the call: denied, 0 units, cost 0.
C5_DenyOutcome ==
  \A c \in Calls : \A i \in 1 .. Len(call[c].plist) :
    (Returned(c) /\ FirstToFire(c, i) /\ call[c].plist[i].decision = "deny") =>
      LET p == call[c].plist[i] IN
      /\ call[c].result.decision = "denied"
      /\ call[c].result.final_tool_used = call[c].input.tool_id
      /\ call[c].result.message.text = "would_exceed"
      /\ call[c].result.message.limit_type = p.limit_type
      /\ call[c].result.message.limit_value = p.limit_value
      /\ call[c].result.remaining_budget = p.limit_value - Measured(c, i)
      /\ Cardinality(EventsOf(c)) = 1
      /\ \A e \in EventsOf(c) :
           /\ e.decision = "denied" /\ e.units = 0 /\ e.cost_estimate = 0
           /\ e.tenant_id = call[c].input.tenant_id /\ e.user_id = call[c].input.user_id

\* a call denied by a deny policy with usage already recorded against the limit
C5_Witness ==
  \E c \in Calls : \E i \in 1 .. Len(call[c].plist) :
    /\ Returned(c) /\ FirstToFire(c, i) /\ call[c].plist[i].decision = "deny"
    /\ Measured(c, i) > 0
    /\ call[c].result.decision = "denied"
    /\ EventsOf(c) # {}

\* the tools of the category of `toolId` other than `toolId`
Alternatives(toolId) ==
  { a \in DOMAIN tools : a # toolId /\ tools[a].category = tools[toolId].category }

\* call c was made by a free-plan tenant for a premium-tier tool
FreeOnPremium(c) ==
  /\ call[c].input.tenant_id \in DOMAIN tenants
  /\ tenants[call[c].input.tenant_id] = "free"
  /\ call[c].input.tool_id \in DOMAIN tools
  /\ tools[call[c].input.tool_id].tier = "premium"

\* C6: a free-plan tenant's request for a premium-tier tool is never allowed,
\* whatever the policies: it is downgraded to a tool of lowest cost_per_unit
\* among the other tools of the category when there is one, denied otherwise.
C6_PlanGate ==
  \A c \in Calls :
    (Returned(c) /\ FreeOnPremium(c)) =>
      LET alt == Alternatives(call[c].input.tool_id) IN
      /\ call[c].result.decision # "allowed"
      /\ alt # {} =>
           /\ call[c].result.decision = "downgraded"
           /\ call[c].result.final_tool_used \in alt
           /\ \A a \in alt : tools[call[c].result.final_tool_used].cost_per_unit
                               <= tools[a].cost_per_unit
      /\ alt = {} => call[c].result.decision = "denied"

\* with a downgrade policy of the tenant on the tool in the table, one premium
\* request of a free tenant downgraded by the gate and another denied by it
C6_Witness ==
  /\ \E p \in policies : p.tenant_id = "FreeCo" /\ p.scope = "tool"
  /\ \E c, d \in Calls :
       /\ Returned(c) /\ FreeOnPremium(c) /\ call[c].result.decision = "downgraded"
       /\ Returned(d) /\ FreeOnPremium(d) /\ call[d].result.decision = "denied"

\* C7: for a tenant with a tool-scope policy on tool X of limit_type per_request,
\* limit_value 0, decision downgrade and fallback F, every route call of the
\* tenant for X (here: every one that reaches policy evaluation) returns
\* downgraded with final_tool_used = F, whatever the current usage.
C7_PerRequestZeroDowngrades ==
  \A c \in Calls : \A p \in policies :
    ( /\ Returned(c) /\ Evaluated(c)
      /\ p.tenant_id = call[c].input.tenant_id
      /\ p.scope = "tool" /\ p.scope_id = call[c].input.tool_id
      /\ p.limit_type = "per_request" /\ p.limit_value = 0
      /\ p.decision = "downgrade" /\ p.fallback_tool_id # NoTool ) =>
        /\ call[c].result.decision = "downgraded"
        /\ call[c].result.final_tool_used = p.fallback_tool_id

\* C8: when a downgrade policy with fallback F fires, route returns downgraded
\* with final_tool_used = F and cost_estimate = F's cost_per_unit x the requested
\* units, records one downgraded event on F with the requested units and that
\* cost, and returns remaining_budget = limit - current_usage - that cost.
C8_DowngradeOutcome ==
  \A c \in Calls : \A i \in 1 .. Len(call[c].plist) :
    (Returned(c) /\ FirstToFire(c, i) /\ call[c].plist[i].decision = "downgrade") =>
      LET p == call[c].plist[i]
          F == p.fallback_tool_id
          fallbackCost == tools[F].cost_per_unit * call[c].input.estimated_units
      IN
      /\ call[c].result.decision = "downgraded"
      /\ call[c].result.final_tool_used = F
      /\ call[c].result.cost_estimate = fallbackCost
      /\ call[c].result.remaining_budget = p.limit_value - Measured(c, i) - fallbackCost
      /\ Cardinality(EventsOf(c)) = 1
      /\ \A e \in EventsOf(c) :
           /\ e.decision = "downgraded" /\ e.tool_id = F
           /\ e.units = call[c].input.estimated_units
           /\ e.cost_estimate = fallbackCost

\* a call downgraded by a policy to a fallback tool cheaper than the requested one
C8_Witness ==
  \E c \in Calls : \E i \in 1 .. Len(call[c].plist) :
    /\ Returned(c) /\ FirstToFire(c, i) /\ call[c].plist[i].decision = "downgrade"
    /\ call[c].result.decision = "downgraded"
    /\ call[c].result.cost_estimate < call[c].estimatedCost
    /\ EventsOf(c) # {}

\* C9: when the first policy to fire has decision require_approval, route returns
\* denied with the manual-approval reason (not the deny reason), no fallback
\* tool is suggested or used, and the request is recorded as a zero-cost denied
\* event.
C9_RequireApprovalOutcome ==
  \A c \in Calls : \A i \in 1 .. Len(call[c].plist) :
    (Returned(c) /\ FirstToFire(c, i)
       /\ call[c].plist[i].decision = "require_approval") =>
      /\ call[c].result.decision = "denied"
      /\ call[c].result.message.text = "requires_approval"
      /\ call[c].evaluation.suggested_tool = NoTool
      /\ call[c].result.final_tool_used = call[c].input.tool_id
      /\ Cardinality(EventsOf(c)) = 1
      /\ \A e \in EventsOf(c) :
           /\ e.decision = "denied" /\ e.units = 0 /\ e.cost_estimate = 0
           /\ e.tool_id = call[c].input.tool_id

\* a call stopped by a monthly require_approval policy on usage of the month
C9_Witness ==
  \E c \in Calls : \E i \in 1 .. Len(call[c].plist) :
    /\ Returned(c) /\ FirstToFire(c, i)
    /\ call[c].plist[i].decision = "require_approval"
    /\ call[c].plist[i].limit_type = "monthly"
    /\ Measured(c, i) > 0
    /\ call[c].result.decision = "denied"
    /\ EventsOf(c) # {}

\* the cost route charged for call c: that of the event it recorded
Charged(c) == IF call[c].result.decision = "denied" THEN 0 ELSE call[c].event.cost_estimate

\* C10: for every result of a route call measured against a policy,
\* remaining_budget = limit - current_usage - cost charged, with the limit and
\* the usage (in the policy's own window) of that policy: the policy that fired,
\* or the most specific applicable policy when none fired.
C10_RemainingBudget ==
  \A c \in Calls :
    (Returned(c) /\ Evaluated(c) /\ Len(call[c].plist) > 0) =>
      LET i == IF \E k \in 1 .. Len(call[c].measured) : FirstToFire(c, k)
               THEN CHOOSE k \in 1 .. Len(call[c].measured) : FirstToFire(c, k)
               ELSE 1
      IN  call[c].result.remaining_budget =
            call[c].plist[i].limit_value - Measured(c, i) - Charged(c)

\* the allowed or downgraded events of the (tenant, user, tool) of event e whose
\* timestamp falls in the period of type pt that contains e's timestamp
ChargedSameKey(e, pt) == { x \in SameKey(e, pt) : x.decision \in {"allowed", "downgraded"} }

\* the usage_aggregates rows of the key of event e for the period of type pt
\* that contains e's timestamp
RowsOf(e, pt) ==
  { r \in usage_aggregates :
      /\ r.tenant_id = e.tenant_id /\ r.user_id = e.user_id /\ r.tool_id = e.tool_id
      /\ r.period_type = (IF pt = "daily" THEN "day" ELSE "month")
      /\ r.period_start = getPeriodStart(pt, e.timestamp) }

\* C11: after route calls issued one after another, each ending allowed or
\* downgraded with cost c on one aggregate key within one period (here: the
\* clock has stayed on day 0 and c is a whole number of cents), the day and the
\* month aggregate of the key hold N x c once the aggregate updates are complete.
C11_SequentialAggregate ==
  (Quiescent /\ now = 0) =>
    \A e \in usage_events : \A pt \in {"daily", "monthly"} :
      (e.decision \in {"allowed", "downgraded"} /\ e.cost_estimate % Cent = 0
         /\ \A x \in ChargedSameKey(e, pt) : x.cost_estimate = e.cost_estimate) =>
        /\ RowsOf(e, pt) # {}
        /\ \A r \in RowsOf(e, pt) :
             r.total_cost = Cardinality(ChargedSameKey(e, pt)) * e.cost_estimate

\* event e is the only usage event of its (tenant, user, tool)
OnlyEventOfKey(e) ==
  \A x \in usage_events :
    (x.tenant_id = e.tenant_id /\ x.user_id = e.user_id /\ x.tool_id = e.tool_id) => x = e

\* C12: an allowed or downgraded event's cost is added to the day and the month
\* aggregate of its (tenant, user, tool) whose period contains the event's
\* timestamp, wherever the clock stands when the aggregate is updated (here: for
\* an event alone on its key and costing a whole number of cents).
C12_AggregatePeriodOfEvent ==
  Quiescent =>
    \A e \in usage_events : \A pt \in {"daily", "monthly"} :
      (e.decision \in {"allowed", "downgraded"} /\ OnlyEventOfKey(e)
         /\ e.cost_estimate % Cent = 0) =>
        /\ RowsOf(e, pt) # {}
        /\ \A r \in RowsOf(e, pt) : r.total_cost = e.cost_estimate

\* C13: costs keep micro-dollar precision end to end: an event's cost is
\* cost_per_unit x units, and the total_cost of the aggregates it is added to is
\* within 1e-6 USD of the sum of the costs added (here: one event alone on its
\* key, the clock staying on day 0); sub-cent costs are not rounded away.
C13_MicroDollarPrecision ==
  (Quiescent /\ now = 0) =>
    \A e \in usage_events : \A pt \in {"daily", "monthly"} :
      (e.decision \in {"allowed", "downgraded"} /\ OnlyEventOfKey(e)) =>
        /\ e.cost_estimate = tools[e.tool_id].cost_per_unit * e.units
        /\ RowsOf(e, pt) # {}
        /\ \A r \in RowsOf(e, pt) :
             /\ r.total_cost - e.cost_estimate <= 1
             /\ e.cost_estimate - r.total_cost <= 1

\* route call c has computed its result and nothing has been recorded since the
\* behaviour began: c was evaluated against the initial store state
OnInitialStore(c) ==
  /\ call[c].pc = "insert"
  /\ usage_events = {} /\ usage_aggregates = {}

\* C14: two route calls with the same (tenant_id, user_id, tool_id,
\* estimated_units) evaluated against the same store state in the same period
\* return the same decision and the same final_tool_used.
C14_SameInputSameDecision ==
  \A c, d \in Calls :
    (OnInitialStore(c) /\ OnInitialStore(d) /\ call[c].input = call[d].input) =>
      /\ call[c].result.decision = call[d].result.decision
      /\ call[c].result.final_tool_used = call[d].result.final_tool_used

\* C15: a route call with an unknown tool_id or an unknown tenant_id returns
\* denied with an explanatory message, cost_estimate 0 for an unknown tool; it
\* never returns allowed or downgraded.
C15_NotFoundDenied ==
  \A c \in Calls :
    Returned(c) =>
      /\ call[c].input.tool_id \notin DOMAIN tools =>
           /\ call[c].result.decision = "denied"
           /\ call[c].result.cost_estimate = 0
           /\ call[c].result.message.text = "tool_not_found"
      /\ call[c].input.tenant_id \notin DOMAIN tenants =>
           /\ call[c].result.decision = "denied"
           /\ call[c].result.message # NoMessage

Covers(p, c) ==
  /\ p.tenant_id = call[c].input.tenant_id
  /\ \/ p.scope = "tenant"
     \/ p.scope = "user" /\ p.scope_id = call[c].input.user_id
     \/ p.scope = "tool" /\ p.scope_id = call[c].input.tool_id

OneEventPerRoutedCall ==
  \A c \in Calls :
    /\ Cardinality(EventsOf(c)) <= 1
    /\ Returned(c) =>
         IF Evaluated(c)
         THEN /\ Cardinality(EventsOf(c)) = 1
              /\ \A e \in EventsOf(c) : e.decision = call[c].result.decision
         ELSE EventsOf(c) = {}

\* C18: every route call that reaches policy evaluation appends exactly one
\* usage event (allowed, downgraded or denied) before it returns, a call ended
\* by tool-not-found or by the plan-tier gate appends none, and no step removes
\* or alters an event recorded earlier.
C18_OneEventAppendOnly ==
  /\ []OneEventPerRoutedCall
  /\ [][usage_events \subseteq usage_events']_vars

\* a call ended by the plan-tier gate with no event, and a call denied by a
\* policy with its event in the log
C18_Witness ==
  \E c, d \in Calls :
    /\ Returned(c) /\ ~Evaluated(c) /\ EventsOf(c) = {}
    /\ call[c].input.tool_id \in DOMAIN tools
    /\ Returned(d) /\ Evaluated(d) /\ call[d].result.decision = "denied"
    /\ EventsOf(d) # {}

\* scope_id is present iff the scope is not tenant, and a downgrade policy has
\* a fallback tool
WellFormed(p) ==
  /\ p.scope = "tenant" <=> p.scope_id = ""
  /\ p.decision = "downgrade" => p.fallback_tool_id # NoTool

\* C19: set_policy rejects a user- or tool-scope policy without scope_id, a
\* tenant-scope policy with one and a downgrade policy without fallback_tool_id,
\* so every policy in the store, and every policy the evaluator is given, has
\* scope_id present iff scope # tenant and a fallback tool if it downgrades.
C19_StoredPoliciesWellFormed ==
  /\ \A p \in policies : WellFormed(p)
  /\ \A c \in Calls : \A p \in Listed(c) : WellFormed(p)

\* C20: with the seeded catalog, a route call of FreeCo (free plan) for gpt-4
\* (premium) is stopped by the plan-tier gate before any cost or policy check
\* and returns downgraded with final_tool_used = gpt-3.5-turbo, cost_estimate 0.
C20_FreeCoGpt4Scenario ==
  \A c \in Calls :
    (Returned(c) /\ call[c].input.tenant_id = "FreeCo"
       /\ call[c].input.tool_id = "gpt-4") =>
      /\ ~Evaluated(c)
      /\ call[c].result.decision = "downgraded"
      /\ call[c].result.cost_estimate = 0
      /\ call[c].result.final_tool_used = "gpt-3.5-turbo"

\* the allowed usage events of tenant t stamped on day d
AllowedOn(t, d) ==
  { e \in usage_events : e.tenant_id = t /\ e.decision = "allowed" /\ e.timestamp = d }

\* C21: for a tenant whose only policy is a tenant-scope daily deny policy of
\* limit L, in any interleaving of concurrent route calls within one day, the
\* costs of the tenant's allowed usage events of the day sum to at most L.
C21_DailyLimitNeverExceeded ==
  \A p \in policies :
    ( /\ \A q \in policies : q.tenant_id = p.tenant_id => q = p
      /\ p.scope = "tenant" /\ p.limit_type = "daily" /\ p.decision = "deny" ) =>
      \A d \in 0 .. MaxDay : SumCost(AllowedOn(p.tenant_id, d)) <= p.limit_value

\* the cost the tenant of call c had recorded, before c was issued, in the
\* window of policy q that contains the moment c was recorded
UsageBefore(c, q) ==
  SumCost({ e \in usage_events :
              /\ e.tenant_id = call[c].input.tenant_id /\ e.id < c
              /\ getPeriodStart(windowOf(q), e.timestamp)
                   = getPeriodStart(windowOf(q), call[c].event.timestamp) })

\* C22: route never returns downgraded by a policy, charging the fallback
\* tool's cost, when the usage plus that cost exceeds the limit of another
\* applicable policy whose decision is deny or require_approval.
C22_DowngradeRespectsDeny ==
  \A c \in Calls :
    (Returned(c) /\ Evaluated(c) /\ call[c].result.decision = "downgraded") =>
      \A q \in Listed(c) :
        q.decision \in {"deny", "require_approval"} =>
          UsageBefore(c, q) + call[c].result.cost_estimate <= q.limit_value

\* C23: for a free-plan tenant no route result with decision allowed or
\* downgraded names a premium-tier tool as final_tool_used, whether the tool
\* comes from the plan gate's alternative or from a policy's fallback_tool_id.
C23_FreeNeverOnPremium ==
  \A c \in Calls :
    ( /\ Returned(c)
      /\ call[c].input.tenant_id \in DOMAIN tenants
      /\ tenants[call[c].input.tenant_id] = "free"
      /\ call[c].result.decision \in {"allowed", "downgraded"} ) =>
      /\ call[c].result.final_tool_used \in DOMAIN tools
      /\ tools[call[c].result.final_tool_used].tier # "premium"

\* rows r and q are the aggregate of one key
SameAggregate(r, q) ==
  /\ r.tenant_id = q.tenant_id /\ r.user_id = q.user_id /\ r.tool_id = q.tool_id
  /\ r.period_type = q.period_type /\ r.period_start = q.period_start

\* C24: aggregate counters are monotonic: under any interleaving of route calls
\* no step lowers the total_cost or the total_units of an existing aggregate row.
C24_AggregatesMonotonic ==
  [][ \A r \in usage_aggregates : \A q \in usage_aggregates' :
        SameAggregate(r, q) =>
          /\ q.total_cost >= r.total_cost
          /\ q.total_units >= r.total_units ]_vars

\* the usage events of the (tenant, user, tool) of aggregate row r
EventsOfRow(r) ==
  { e \in usage_events :
      e.tenant_id = r.tenant_id /\ e.user_id = r.user_id /\ e.tool_id = r.tool_id }

\* C25: an aggregate update is started for an event only once the event is in
\* the log, so a call whose usage-event insert failed starts none and every
\* aggregate row holds no more than the recorded events of its key; the update
\* of a recorded event may still be pending when route has returned.
C25_AggregateAfterEvent ==
  /\ \A c \in Calls :
       /\ upd[c].pc # "none" => (call[c].recorded /\ upd[c].event \in usage_events)
       /\ (Returned(c) /\ ~call[c].recorded) => (upd[c].pc = "none" /\ EventsOf(c) = {})
  /\ \A r \in usage_aggregates :
       /\ r.total_units <= SumUnits(EventsOfRow(r))
       /\ r.total_cost <= SumCents(EventsOfRow(r))

\* one call has returned with its aggregate update still to run, another has
\* returned after its insert of an allowed event failed
C25_Witness ==
  \E c, d \in Calls :
    /\ Returned(c) /\ call[c].recorded /\ upd[c].pc = "dayRead"
    /\ call[c].event.cost_estimate > 0
    /\ Returned(d) /\ "insert" \in call[d].err /\ call[d].event.decision = "allowed"
    /\ upd[d].pc = "none"

\* call c asked for a catalog tool and the plan-tier gate rejected it: a premium
\* tool for a free-plan tenant, or a tenant that has no row
GateRejected(c) ==
  /\ call[c].input.tool_id \in DOMAIN tools
  /\ \/ FreeOnPremium(c)
     \/ call[c].input.tenant_id \notin DOMAIN tenants

\* C26: when the plan-tier gate rejects a request route ends there: no cost is
\* estimated, no policy is fetched or measured, the result is downgraded or
\* denied with cost_estimate 0, no usage event is appended and no aggregate
\* update is started.
C26_GateEndsRoute ==
  \A c \in Calls :
    (call[c].pc # "idle" /\ GateRejected(c)) =>
      /\ Returned(c)
      /\ call[c].estimatedCost = 0
      /\ call[c].plist = <<>> /\ call[c].measured = <<>>
      /\ call[c].evaluation = NoEvaluation
      /\ call[c].result.decision \in {"downgraded", "denied"}
      /\ call[c].result.cost_estimate = 0
      /\ EventsOf(c) = {}
      /\ upd[c].pc = "none"

\* a gate-rejected call of a tenant that has an applicable policy and recorded
\* usage: returned, with nothing evaluated and nothing recorded
C26_Witness ==
  \E c \in Calls :
    /\ Returned(c) /\ GateRejected(c) /\ FreeOnPremium(c)
    /\ \E p \in policies : Covers(p, c)
    /\ \E e \in usage_events : e.tenant_id = call[c].input.tenant_id
    /\ call[c].result.decision = "downgraded"
    /\ EventsOf(c) = {}

\* the events the tenant of call c had recorded before c was issued in the
\* period of type `window` starting on day `start`: stamped in it, or entered in
\* the ledger in it
RecordedIn(c, window, start) ==
  { e \in usage_events :
      /\ e.tenant_id = call[c].input.tenant_id /\ e.id < c
      /\ \/ getPeriodStart(window, e.timestamp) = start
         \/ getPeriodStart(window, upd[e.id].now) = start }

\* only the aggregate update in progress for a key writes the row of that key
NoResetWrite ==
  \A r \in usage_aggregates :
    r \in usage_aggregates' \/
      \E u \in Updates : upd[u].pc \in {"dayWrite", "monthWrite"} /\ Matches(r, KeyOf(upd[u]))

OwnKeyEvents(c) ==
  { e \in usage_events :
      /\ e.id < c
      /\ e.tenant_id = call[c].input.tenant_id
      /\ e.user_id = call[c].input.user_id
      /\ e.tool_id = call[c].input.tool_id }

\* C28: the current_usage a policy is measured against is the aggregate of the
\* request's own (tenant, user, tool) for the period: cost recorded for another
\* user or another tool of the tenant does not count toward it.
C28_UsageOfOwnKey ==
  \A c \in Calls : \A i \in 1 .. Len(call[c].measured) :
    Measured(c, i) <= SumCost(OwnKeyEvents(c))

\* C29: evaluation goes through the applicable policies in order and stops at
\* the first one that is breached and whose decision fires: a policy within its
\* limit, or breached with decision allow, never ends it, and when none fires
\* every policy has been measured and the request is allowed.
C29_FirstFiringPolicyWins ==
  \A c \in Calls :
    (Returned(c) /\ Evaluated(c) /\ Len(call[c].plist) > 0) =>
      IF \E i \in 1 .. Len(call[c].measured) : FirstToFire(c, i)
      THEN \A i \in 1 .. Len(call[c].measured) :
             FirstToFire(c, i) =>
               /\ Len(call[c].measured) = i
               /\ call[c].evaluation.policy = call[c].plist[i].id
               /\ call[c].plist[i].decision \in {"deny", "require_approval"} =>
                    call[c].result.decision = "denied"
               /\ call[c].plist[i].decision = "downgrade" =>
                    call[c].result.decision = "downgraded"
      ELSE /\ Len(call[c].measured) = Len(call[c].plist)
           /\ call[c].result.decision = "allowed"

\* a call denied by the second policy examined, the first one being breached
\* with decision allow
C29_Witness ==
  \E c \in Calls :
    /\ Returned(c) /\ Evaluated(c) /\ Len(call[c].measured) = 2
    /\ call[c].plist[1].decision = "allow"
    /\ Measured(c, 1) + call[c].estimatedCost > call[c].plist[1].limit_value
    /\ FirstToFire(c, 2) /\ call[c].plist[2].decision = "deny"
    /\ call[c].result.decision = "denied"

\* C30: when no applicable policy fires evaluateRequest returns allowed = true
\* with the limit_value (also when it is 0) of the first policy of its list and
\* the usage measured for that policy in the policy's own window.
C30_AllPassReportsFirstPolicy ==
  \A c \in Calls :
    (Evaluated(c) /\ call[c].evaluation.reason.text = "within_limits") =>
      /\ call[c].evaluation.allowed
      /\ call[c].evaluation.limit = call[c].plist[1].limit_value
      /\ call[c].evaluation.current_usage = Measured(c, 1)

\* the recorded events of the (tenant, user, tool) of event e other than those
\* of decision denied
ChargedOfKey(e) ==
  { x \in usage_events :
      /\ x.tenant_id = e.tenant_id /\ x.user_id = e.user_id /\ x.tool_id = e.tool_id
      /\ x.decision # "denied" }

\* C31: a route call that ends denied contributes zero cost and zero units: once
\* every call and aggregate update has completed, the rows of a key whose only
\* charged event is e hold e's units and cost (as the column keeps it), as they
\* would had the denied calls on the key not been made, in every interleaving.
C31_DeniedContributesNothing ==
  Quiescent =>
    \A e \in usage_events : \A pt \in {"daily", "monthly"} :
      (e.decision # "denied" /\ ChargedOfKey(e) = {e}) =>
        /\ RowsOf(e, pt) # {}
        /\ \A r \in RowsOf(e, pt) :
             /\ r.total_units = e.units
             /\ r.total_cost = RoundCents(e.cost_estimate)

\* the usage events of the (tenant, user, tool) of aggregate row r stamped in
\* r's period
EventsInPeriodOf(r) ==
  { e \in EventsOfRow(r) :
      getPeriodStart(IF r.period_type = "day" THEN "daily" ELSE "monthly", e.timestamp)
        = r.period_start }

\* C32: an aggregate never over-counts: in every reachable state an aggregate
\* row's total_cost is at most the sum of the costs of the usage events recorded
\* for the row's (tenant, user, tool) in its period.
C32_NoOverCount ==
  \A r \in usage_aggregates : r.total_cost <= SumCost(EventsInPeriodOf(r))

\* the requests of tenant t that reach policy evaluation, with their cost
Estimates(t) ==
  { estimateCost(tools[inp.tool_id], inp.estimated_units) :
      inp \in { i \in Inputs : i.tenant_id = t /\ i.tool_id \in DOMAIN tools } }

\* C33: in a quiescent state, whenever getCurrentUsage is served from
\* usage_aggregates for a tenant and window (exactly one row matches), the value
\* equals the sum of cost_estimate over the tenant's events since the window
\* start that the event-log fallback returns, so no policy of the tenant is
\* breached on one path and not on the other.
C33_AggregateEqualsEventLog ==
  Quiescent =>
    \A t \in DOMAIN tenants : \A w \in {"daily", "monthly"} :
      LET periodStart == getPeriodStart(w, now)
          rows        == AggregateRows(t, w, periodStart)
      IN  Cardinality(rows) = 1 =>
            LET fromAggregate == (CHOOSE r \in rows : TRUE).total_cost
                fromEvents    == SumCost(EventsSince(t, periodStart))
            IN  /\ fromAggregate = fromEvents
                /\ \A p \in policies : \A cost \in Estimates(t) :
                     (p.tenant_id = t /\ windowOf(p) = w) =>
                       (Breached(p, fromAggregate, cost) <=> Breached(p, fromEvents, cost))

\* C34: for every route call that has recorded a usage event and returned, the
\* event agrees with the result: same decision, tool_id = final_tool_used, and
\* for allowed and downgraded results the event's cost_estimate is the returned
\* cost_estimate and its units are the requested estimated_units.
C34_EventAgreesWithResult ==
  \A c \in Calls : \A e \in EventsOf(c) :
    Returned(c) =>
      /\ e.decision = call[c].result.decision
      /\ e.tool_id = call[c].result.final_tool_used
      /\ call[c].result.decision \in {"allowed", "downgraded"} =>
           /\ e.cost_estimate = call[c].result.cost_estimate
           /\ e.units = call[c].input.estimated_units

\* a call downgraded by a policy, its event on the fallback tool at the fallback
\* tool's cost, and a call denied by a policy with its zero-cost event on the
\* requested tool
C34_Witness ==
  \E c, d \in Calls :
    /\ Returned(c) /\ call[c].result.decision = "downgraded"
    /\ \E e \in EventsOf(c) :
         /\ e.tool_id # call[c].input.tool_id
         /\ e.cost_estimate < call[c].estimatedCost
    /\ Returned(d) /\ call[d].result.decision = "denied"
    /\ \E e \in EventsOf(d) : e.tool_id = call[d].input.tool_id /\ e.cost_estimate = 0

\* C35: in every reachable state there is at most one usage_aggregates row per
\* (tenant, user, tool, period_type, period_start), also when two concurrent
\* upserts both find no row and both attempt the insert.
C35_OneRowPerKey ==
  \A r, q \in usage_aggregates : SameAggregate(r, q) => r = q

\* two aggregate updates of one key, of a charged and of a denied event, have
\* both found no day row and both gone through the insert: the key has one row
C35_Witness ==
  \E c, d \in Calls :
    /\ c # d
    /\ upd[c].pc = "monthRead" /\ upd[d].pc = "monthRead"
    /\ upd[c].event.tenant_id = upd[d].event.tenant_id
    /\ upd[c].event.user_id = upd[d].event.user_id
    /\ upd[c].event.tool_id = upd[d].event.tool_id
    /\ upd[c].event.units > 0 /\ upd[d].event.units = 0
    /\ \E r \in usage_aggregates :
         /\ r.period_type = "day" /\ EventsOfRow(r) = {upd[c].event, upd[d].event}
         /\ r.total_units = 0

\* a returned call's decision is one of the three terminal states
Decided(c) == call[c].result.decision \in {"allowed", "denied", "downgraded"}

\* the policies call c has measured are the first ones of its list, each once
VisitedOnce(c) ==
  /\ Len(call[c].measured) <= Len(call[c].plist)
  /\ \A i \in 1 .. Len(call[c].measured) : call[c].measured[i].policy = call[c].plist[i].id
  /\ \A i, j \in 1 .. Len(call[c].plist) : i # j => call[c].plist[i] # call[c].plist[j]

\* C36: every route call that has begun terminates, whether its store accesses
\* return or fail, in exactly one of the terminal states allowed, denied or
\* downgraded, which it then keeps; the policy loop visits each applicable
\* policy at most once.
C36_RouteTerminates ==
  /\ [] \A c \in Calls : VisitedOnce(c) /\ (Returned(c) => Decided(c))
  /\ [][ \A c \in Calls : Returned(c) => call'[c] = call[c] ]_vars
  /\ \A c \in Calls : (call[c].pc # "idle") ~> (Returned(c) /\ Decided(c))

\* a call has returned allowed after measuring two policies, a store access
\* having returned an error on the way
C36_Witness ==
  \E c \in Calls :
    /\ Returned(c) /\ Len(call[c].measured) >= 2 /\ call[c].err # {}
    /\ call[c].result.decision = "allowed"

\* the step is one of a route call or of the aggregate update it started
RouteWrites ==
  \/ call' # call \/ upd' # upd
  \/ usage_events' # usage_events \/ usage_aggregates' # usage_aggregates

\* C37: route and evaluateRequest never create, modify or delete a policy: the
\* steps of a route call write only usage_events and usage_aggregates, and the
\* policies table changes only by set_policy, never by any sequence of route
\* calls (tools and tenants are only ever selected from).
C37_RouteLeavesPolicies ==
  [][ /\ RouteWrites => policies' = policies
      /\ policies' # policies =>
           /\ call' = call /\ upd' = upd
           /\ usage_events' = usage_events /\ usage_aggregates' = usage_aggregates ]_vars

\* a call has been denied by a policy that set_policy wrote, and the policy is
\* in the table as written
C37_Witness ==
  \E c \in Calls : \E p \in policies :
    /\ Returned(c) /\ Evaluated(c) /\ p \in Listed(c)
    /\ p.id >= 10 /\ call[c].evaluation.policy = p.id
    /\ call[c].result.decision = "denied"
    /\ EventsOf(c) # {}

\* C38: a message POSTed to /sse is handled only by the transport of an open SSE
\* session: connections holds exactly the sessions opened and not closed, a POST
\* naming a session is never given to another session's transport, and no POST
\* is routed to a transport that has closed.
C38_PostReachesOwnOpenSession ==
  /\ connections = { s \in Sessions : transports[s] = "open" }
  /\ (posted.named \in {"open", "closed"} /\ posted.transport # NoSession) =>
       posted.transport = posted.sessionId
  /\ posted.transport # NoSession => posted.open

====
